---- MODULE Spec2Model ----
(***************************************************************************)
(* Session bootstrap and real-time state synchronisation of the tradr      *)
(* frontend: the app shell (src/src/App.tsx) and the watchlist / alerts    *)
(* component (src/src/components/StockTrackerAndAlerts.tsx).               *)
(*                                                                         *)
(* The auth provider and the document store are the environment.  Every   *)
(* await of the source is a suspension point: the request is one step, the *)
(* provider's answer another, and the code after the await runs with the   *)
(* values its closure captured when the handler was called.                *)
(***************************************************************************)
EXTENDS Integers, Sequences, FiniteSets, Bags, TLC

(***************************************************************************)
(* Bounds of the model.                                                    *)
(***************************************************************************)
MaxCalls == 3      \* addStock / removeStock calls of one run
MaxSnap == 2       \* snapshots queued for one listener and not yet delivered
MaxNotify == 2     \* identity changes the provider has not yet broadcast
MaxLoss == 1       \* times the provider drops the identity on its own
MaxSessionCalls == 1 \* the same where the identity can change

(***************************************************************************)
(* Program constants.                                                      *)
(***************************************************************************)
MaxStocks == 5     \* StockTrackerAndAlerts.tsx:159

NoUser == "null"
AnonIds == {"g1"}          \* identities issued by guest / anonymous sign-in
CredIds == {"c1"}          \* identities issued by e-mail sign-in or sign-up
Ids == AnonIds \cup CredIds

Configs == {"valid", "empty", "null"}

(***************************************************************************)
(* Strings are sequences of one-character strings.                         *)
(***************************************************************************)
Space == " "

toUpperCaseChar(c) ==
  CASE c = "a" -> "A"
    [] c = "b" -> "B"
    [] OTHER -> c

\* a conversion that keeps the case
keepCase(s) == s

toUpperCase(s) == [i \in 1..Len(s) |-> toUpperCaseChar(s[i])]

RECURSIVE trimStart(_)
trimStart(s) ==
  IF s # <<>> /\ Head(s) = Space THEN trimStart(Tail(s)) ELSE s

RECURSIVE trimEnd(_)
trimEnd(s) ==
  IF s # <<>> /\ s[Len(s)] = Space THEN trimEnd(SubSeq(s, 1, Len(s) - 1)) ELSE s

\* a trim that keeps the surrounding spaces
keepSpaces(s) == s

trim(s) == trimEnd(trimStart(s))

Range(s) == {s[i] : i \in 1..Len(s)}

includes(list, x) == x \in Range(list)

RECURSIVE filterOut(_, _)
filterOut(list, x) ==
  IF list = <<>> THEN <<>>
  ELSE IF Head(list) # x THEN <<Head(list)>> \o filterOut(Tail(list), x)
  ELSE filterOut(Tail(list), x)

(***************************************************************************)
(* What the user can type into the ticker field, and the watchlist         *)
(* documents the store can hold when the app starts.                       *)
(***************************************************************************)
RawInputs ==
  { <<Space>>, <<"a">>, <<Space, "A", Space>>, <<"b", Space>> }

\* the input typed where the identity changes
SessionInputs == { <<"a">> }

NoDoc == "absent"
\* a document that exists and has no stocks field
NoStocks == "nostocks"
StoredList == << <<"W">>, <<"X">>, <<"Y">>, <<"Z">> >>
InitDocs == {NoDoc, StoredList}

\* the documents the store holds where the identity changes
SessionDocs == { [o \in Ids |-> IF o \in CredIds THEN StoredList ELSE NoDoc] }

\* the values another client of the same account writes
RemoteDocs == {NoDoc, NoStocks, StoredList}

\* the Remove buttons the user presses
RemoveChoices == { <<"A">>, <<"B">>, <<"Z">> }

(***************************************************************************)
(* The alerts collections, written by a backend that is not part of the    *)
(* client.  A member document has an identifier and its data; the data may *)
(* carry a field named id of its own.                                      *)
(***************************************************************************)
NoField == "none"

AlertDocs(o) ==
  IF o = "g1"
  THEN << [docId |-> "x1", alertTimestamp |-> 1, dataId |-> NoField],
          [docId |-> "x2", alertTimestamp |-> 2, dataId |-> "k2"] >>
  ELSE << [docId |-> "y1", alertTimestamp |-> 3, dataId |-> NoField] >>

\* { id: doc.id, ...doc.data() }
projectAlert(d) ==
  [id |-> IF d.dataId # NoField THEN d.dataId ELSE d.docId,
   alertTimestamp |-> d.alertTimestamp]

\* Array.prototype.sort with (a, b) => time(b) - time(a): stable, newest first
RECURSIVE insertAlert(_, _)
insertAlert(sorted, a) ==
  IF sorted = <<>> THEN <<a>>
  ELSE IF Head(sorted).alertTimestamp >= a.alertTimestamp
       THEN <<Head(sorted)>> \o insertAlert(Tail(sorted), a)
       ELSE <<a>> \o sorted

RECURSIVE sortAlerts(_)
sortAlerts(list) ==
  IF list = <<>> THEN <<>>
  ELSE insertAlert(sortAlerts(SubSeq(list, 1, Len(list) - 1)), list[Len(list)])

alertsOfSnapshot(members) ==
  sortAlerts([i \in 1..Len(members) |-> projectAlert(members[i])])

VARIABLES
  firebaseConfig,   \* the parsed configuration: "valid", "empty" or "null"
  retained,         \* the identity the provider held when the app started
  run2,             \* where the second run of the bootstrap effect stands:
                    \* "off" in a production build, where the effect runs once
  provUser,         \* the identity the auth provider holds now
  issued,           \* identities the provider issued by sign-in since the start
  authQ,            \* identity changes not yet broadcast to the listeners
  losses,           \* identity losses so far
  calls,            \* addStock / removeStock calls so far
  bpc,              \* where initializeFirebase stands
  auth,             \* App: auth (and db) state set
  user,             \* App: user
  isLoadingAuth,    \* App: isLoadingAuth
  authError,        \* App: authError ("none" for null)
  showLoginPrompt,  \* App: showLoginPrompt
  currentPage,      \* App: currentPage
  ongoing,          \* App: the ongoing listener is attached
  appReqs,          \* App: sign-in calls awaiting the provider or their continuation
  tracker,          \* the mounted StockTrackerAndAlerts instance (or the blank one)
  orphanAuto,       \* automatic sign-ins of unmounted instances, still in flight
  ops,              \* addStock / removeStock calls in flight (a bag)
  docs,             \* the store: owner -> watchlist document
  ledger            \* history: the adds that committed, the removes requested,
                    \* the adds issued while another add was in flight, and
                    \* whether every call so far ran alone and was written

appVars == <<bpc, auth, user, isLoadingAuth, authError, showLoginPrompt,
             currentPage, ongoing, appReqs>>
envVars == <<firebaseConfig, retained, run2, provUser, issued, authQ, losses, calls>>
storeVars == <<docs, ledger>>
vars == <<firebaseConfig, retained, run2, provUser, issued, authQ, losses, calls,
          bpc, auth, user, isLoadingAuth, authError, showLoginPrompt,
          currentPage, ongoing, appReqs, tracker, orphanAuto, ops, docs, ledger>>

(***************************************************************************)
(* StockTrackerAndAlerts: one component instance.                          *)
(***************************************************************************)
NoSubs == [o \in Ids |-> 0]

\* the state of an instance that is not mounted
UnmountedTracker ==
  [mounted |-> FALSE, userId |-> NoUser,
   trackedStocks |-> <<>>, stocksFrom |-> NoUser,
   userAlerts |-> <<>>, alertsFrom |-> NoUser,
   message |-> "", messageType |-> "", messageTimeoutRef |-> FALSE, timers |-> 0,
   newStock |-> <<>>, isLoading |-> TRUE, signingIn |-> 0,
   wLive |-> NoSubs, aLive |-> NoSubs, wQ |-> <<>>, aQ |-> <<>>,
   wFailed |-> FALSE, aFailed |-> FALSE]

\* a showMessage that arms its timer without clearing the one before
showMessageKeepsTimer(t, msg, type) ==
  [t EXCEPT !.message = msg, !.messageType = type,
            !.messageTimeoutRef = (@ \/ type = "success"),
            !.timers = @ + (IF type = "success" THEN 1 ELSE 0)]

\* showMessage(msg, type), lines 50-64: messageTimeoutRef tells whether the
\* ref holds a timer that has not fired, timers counts the pending timers
showMessage(t, msg, type) ==
  [t EXCEPT !.message = msg, !.messageType = type,
            !.messageTimeoutRef = (type = "success"),
            !.timers = (@ - (IF t.messageTimeoutRef THEN 1 ELSE 0))
                         + (IF type = "success" THEN 1 ELSE 0)]

\* cleanup of the two snapshot effects
cancelSubscriptions(t) ==
  IF t.userId = NoUser THEN t
  ELSE [t EXCEPT !.wLive[t.userId] = @ - 1, !.aLive[t.userId] = @ - 1,
                 !.wQ = <<>>, !.aQ = <<>>,
                 !.wFailed = FALSE, !.aFailed = FALSE]

\* the two snapshot effects run for userId v: onSnapshot on the watchlist
\* document and on the alerts collection, each answered by a first snapshot
openSubscriptions(t, v) ==
  [t EXCEPT !.wLive[v] = @ + 1, !.aLive[v] = @ + 1,
            !.wQ = <<[owner |-> v, doc |-> docs[v]]>>,
            !.aQ = <<[owner |-> v, members |-> AlertDocs(v)]>>,
            !.wFailed = FALSE, !.aFailed = FALSE]

\* effects that run again for every notification, changed identity or not
setUserIdRerun(t, v) ==
  [openSubscriptions(IF v = t.userId THEN t ELSE cancelSubscriptions(t), v)
     EXCEPT !.userId = v]

\* setUserId(v) and the effects keyed on [db, userId, appId]
setUserId(t, v) ==
  IF v = t.userId THEN t
  ELSE [openSubscriptions(cancelSubscriptions(t), v) EXCEPT !.userId = v]

\* the onAuthStateChanged callback up to its await
trackerAuthCallback(t, v) ==
  IF v # NoUser
  THEN [setUserId(t, v) EXCEPT !.isLoading = FALSE]
  ELSE [t EXCEPT !.signingIn = @ + 1]

\* a fresh instance: useState initial values, then the mount effect attaches
\* the listener, whose first callback reports the provider's identity p
MountedTracker(p) ==
  trackerAuthCallback([UnmountedTracker EXCEPT !.mounted = TRUE], p)

\* a tracker that stays in the tree whoever the user is
trackerRenderedAnyUser(page, u, loading, err) ==
  ~loading /\ err = "none" /\ page = "tracker"

\* App's render guards: is <StockTrackerAndAlerts/> in the tree?
trackerRendered(page, u, loading, err) ==
  ~loading /\ err = "none" /\ page = "tracker" /\ u # NoUser

orphanOp(op) == [op EXCEPT !.orphan = TRUE]

\* React commits App's new state: the tracker is mounted or unmounted
Commit(t) ==
  LET shown == trackerRendered(currentPage', user', isLoadingAuth', authError')
      gone == t.mounted /\ ~shown
  IN /\ tracker' = (IF shown = t.mounted THEN t
                    ELSE IF shown THEN MountedTracker(provUser') ELSE UnmountedTracker)
     /\ orphanAuto' = orphanAuto + (IF gone THEN t.signingIn ELSE 0)
     /\ ops' = (IF gone THEN BagOfAll(orphanOp, ops) ELSE ops)

\* the state after construction: App's useState initial values, nothing
\* mounted, no request made
Constructed ==
  /\ provUser = retained
  /\ issued = {}
  /\ authQ = <<>>
  /\ losses = 0
  /\ calls = 0
  /\ bpc = "start"
  /\ auth = FALSE
  /\ user = NoUser
  /\ isLoadingAuth = TRUE
  /\ authError = "none"
  /\ showLoginPrompt = FALSE
  /\ currentPage = "analysis"
  /\ ongoing = FALSE
  /\ appReqs = <<>>
  /\ tracker = UnmountedTracker
  /\ orphanAuto = 0
  /\ ops = EmptyBag
  /\ ledger = [added |-> {}, removed |-> {}, overlapped |-> {}, orderly |-> TRUE]

Init ==
  /\ firebaseConfig \in Configs
  /\ run2 = "off"
  /\ retained \in Ids \cup {NoUser}
  /\ docs \in SessionDocs
  /\ Constructed

(***************************************************************************)
(* App: bootstrap (initializeFirebase).                                    *)
(***************************************************************************)
configValid == firebaseConfig = "valid"

\* currentPage as the ongoing listener's closure sees it: the effect runs once,
\* after the first render, so the callback reads the first render's value
listenerPage == "analysis"

\* the ongoing listener's callback
promptAfter(v) ==
  IF v # NoUser THEN FALSE
  ELSE IF listenerPage = "tracker" THEN TRUE ELSE showLoginPrompt

\* lines 70-85: the configuration check, then setDb / setAuth
BootStart ==
  /\ bpc = "start"
  /\ IF ~configValid
     THEN authError' = "config" /\ bpc' = "fatal" /\ UNCHANGED auth
     ELSE auth' = TRUE /\ bpc' = "setPersistence" /\ UNCHANGED authError
  /\ UNCHANGED <<user, isLoadingAuth, showLoginPrompt, currentPage, ongoing,
                 appReqs, tracker, orphanAuto, ops, docs, ledger>>
  /\ UNCHANGED envVars

\* the catch block of initializeFirebase
bootCatch ==
  /\ authError' = "init"
  /\ isLoadingAuth' = FALSE
  /\ bpc' = "error"
  /\ UNCHANGED <<auth, user, showLoginPrompt, currentPage, ongoing, appReqs>>

\* setPersistence resolves: the one-shot listener is attached
BootPersistenceSet ==
  /\ bpc = "setPersistence"
  /\ bpc' = "initialUser"
  /\ UNCHANGED <<auth, user, isLoadingAuth, authError, showLoginPrompt,
                 currentPage, ongoing, appReqs, tracker, orphanAuto, ops, docs, ledger>>
  /\ UNCHANGED envVars

BootPersistenceFails ==
  /\ bpc = "setPersistence"
  /\ bootCatch
  /\ UNCHANGED envVars
  /\ UNCHANGED storeVars
  /\ Commit(tracker)

\* the ongoing listeners attached to the provider (line 112), one for each
\* run of initializeFirebase that has reached it
listeners == (IF ongoing THEN 1 ELSE 0) + (IF run2 = "ready" THEN 1 ELSE 0)

\* signOut (line 101) resolves: the provider holds no identity, and tells the
\* listeners attached if it held one
providerSignsOut ==
  /\ provUser' = NoUser
  /\ IF provUser # NoUser /\ (listeners > 0 \/ tracker.mounted)
     THEN Len(authQ) < MaxNotify /\ authQ' = Append(authQ, NoUser)
     ELSE UNCHANGED authQ
  /\ UNCHANGED <<firebaseConfig, retained, issued, losses, calls>>

\* lines 102-112 / 107-112: the app is ready and the ongoing listener is
\* attached; its first callback reports the identity p the provider holds
bootReady(p) ==
  /\ user' = p
  /\ showLoginPrompt' = FALSE
  /\ isLoadingAuth' = FALSE
  /\ ongoing' = TRUE
  /\ bpc' = "ready"
  /\ UNCHANGED <<auth, authError, currentPage, appReqs>>

\* a bootstrap that resumes the retained session
BootResumes ==
  /\ bpc = "initialUser"
  /\ bootReady(provUser)
  /\ UNCHANGED envVars
  /\ UNCHANGED storeVars
  /\ Commit(tracker)

\* the one-shot listener reports the initial user
BootInitialUser ==
  /\ bpc = "initialUser"
  /\ IF provUser # NoUser
     THEN /\ bpc' = "signOut"
          /\ UNCHANGED <<auth, user, isLoadingAuth, authError, showLoginPrompt,
                         currentPage, ongoing, appReqs>>
     ELSE bootReady(provUser)
  /\ UNCHANGED envVars
  /\ UNCHANGED storeVars
  /\ Commit(tracker)

\* signOut resolves
BootSignedOut ==
  /\ bpc = "signOut"
  /\ providerSignsOut
  /\ UNCHANGED run2
  /\ bootReady(provUser')
  /\ UNCHANGED storeVars
  /\ Commit(tracker)

BootSignOutFails ==
  /\ bpc = "signOut"
  /\ bootCatch
  /\ UNCHANGED envVars
  /\ UNCHANGED storeVars
  /\ Commit(tracker)

(***************************************************************************)
(* App: the second run of the bootstrap effect.  In a development build    *)
(* React.StrictMode (main.tsx 19-25) runs every effect, its cleanup and    *)
(* the effect again when the component mounts.  The effect of lines 67-135 *)
(* returns nothing, so it has no cleanup, and initializeFirebase runs a    *)
(* second time on the same state, each run at its own pace.                *)
(***************************************************************************)
\* the second run's configuration check, after the first run has reached its
\* first await
Boot2Start ==
  /\ run2 = "start" /\ bpc # "start"
  /\ IF ~configValid
     THEN authError' = "config" /\ run2' = "fatal" /\ UNCHANGED auth
     ELSE auth' = TRUE /\ run2' = "setPersistence" /\ UNCHANGED authError
  /\ UNCHANGED <<bpc, user, isLoadingAuth, showLoginPrompt, currentPage, ongoing,
                 appReqs, tracker, orphanAuto, ops, docs, ledger>>
  /\ UNCHANGED <<firebaseConfig, retained, provUser, issued, authQ, losses, calls>>

boot2Catch ==
  /\ authError' = "init"
  /\ isLoadingAuth' = FALSE
  /\ run2' = "error"
  /\ UNCHANGED <<bpc, auth, user, showLoginPrompt, currentPage, ongoing, appReqs>>

Boot2PersistenceSet ==
  /\ run2 = "setPersistence"
  /\ run2' = "initialUser"
  /\ UNCHANGED appVars
  /\ UNCHANGED <<firebaseConfig, retained, provUser, issued, authQ, losses, calls>>
  /\ UNCHANGED <<tracker, orphanAuto, ops, docs, ledger>>

Boot2PersistenceFails ==
  /\ run2 = "setPersistence"
  /\ boot2Catch
  /\ UNCHANGED <<firebaseConfig, retained, provUser, issued, authQ, losses, calls>>
  /\ UNCHANGED storeVars
  /\ Commit(tracker)

\* setUser(null), setIsLoadingAuth(false), setShowLoginPrompt(false), then a
\* second ongoing listener, whose first callback reports the identity p
boot2Ready(p) ==
  /\ user' = p
  /\ showLoginPrompt' = FALSE
  /\ isLoadingAuth' = FALSE
  /\ run2' = "ready"
  /\ UNCHANGED <<bpc, auth, authError, currentPage, ongoing, appReqs>>

Boot2InitialUser ==
  /\ run2 = "initialUser"
  /\ IF provUser # NoUser
     THEN /\ run2' = "signOut"
          /\ UNCHANGED appVars
     ELSE boot2Ready(provUser)
  /\ UNCHANGED <<firebaseConfig, retained, provUser, issued, authQ, losses, calls>>
  /\ UNCHANGED storeVars
  /\ Commit(tracker)

Boot2SignedOut ==
  /\ run2 = "signOut"
  /\ providerSignsOut
  /\ boot2Ready(provUser')
  /\ UNCHANGED storeVars
  /\ Commit(tracker)

Boot2SignOutFails ==
  /\ run2 = "signOut"
  /\ boot2Catch
  /\ UNCHANGED <<firebaseConfig, retained, provUser, issued, authQ, losses, calls>>
  /\ UNCHANGED storeVars
  /\ Commit(tracker)

(***************************************************************************)
(* App: what is on screen, and the handlers behind it.                     *)
(***************************************************************************)
\* the listeners' callbacks are queued the moment the provider's identity
\* changes: they run before the browser handles the next user event
userEvent == authQ = <<>>

\* neither the loading screen (200-206) nor the error screen (208-218)
mainRendered == userEvent /\ ~isLoadingAuth /\ authError = "none"

\* a login prompt that stays on screen while a sign-in is in progress
loginPromptKept ==
  userEvent /\ authError = "none" /\ currentPage = "tracker" /\ user = NoUser
    /\ showLoginPrompt

\* lines 208-218: the "Authentication Error" screen is what App renders
errorScreenRendered == ~isLoadingAuth /\ authError # "none"

\* line 301: the login prompt with its two sign-in buttons
loginPromptRendered ==
  mainRendered /\ currentPage = "tracker" /\ user = NoUser /\ showLoginPrompt

\* onClick={() => setCurrentPage('analysis')}
SetPageAnalysis ==
  /\ mainRendered
  /\ currentPage = "tracker"
  /\ currentPage' = "analysis"
  /\ UNCHANGED <<bpc, auth, user, isLoadingAuth, authError, showLoginPrompt,
                 ongoing, appReqs>>
  /\ UNCHANGED envVars
  /\ UNCHANGED storeVars
  /\ Commit(tracker)

handleTrackerClick ==
  /\ mainRendered
  /\ currentPage' = "tracker"
  /\ showLoginPrompt' = (IF user = NoUser THEN TRUE ELSE showLoginPrompt)
  /\ UNCHANGED <<bpc, auth, user, isLoadingAuth, authError, ongoing, appReqs>>
  /\ UNCHANGED envVars
  /\ UNCHANGED storeVars
  /\ Commit(tracker)

\* handleAuthAction / handleGuestLogin up to the await
startSignIn(kind) ==
  /\ IF ~auth
     THEN authError' = "noAuth" /\ UNCHANGED <<isLoadingAuth, appReqs>>
     ELSE /\ isLoadingAuth' = TRUE
          /\ authError' = "none"
          /\ appReqs' = Append(appReqs, [kind |-> kind, st |-> "pending"])
  /\ UNCHANGED <<bpc, auth, user, showLoginPrompt, currentPage, ongoing>>
  /\ UNCHANGED envVars
  /\ UNCHANGED storeVars
  /\ Commit(tracker)

\* the e-mail button: disabled while loading or while a field is empty
handleAuthAction ==
  /\ loginPromptRendered
  /\ startSignIn("email")

handleGuestLogin ==
  /\ loginPromptRendered
  /\ startSignIn("guest")

idsOf(kind) == IF kind = "email" THEN CredIds ELSE AnonIds

\* the provider accepts a sign-in: it holds the new identity and will tell
\* its listeners
providerSignsIn(id) ==
  /\ Len(authQ) < MaxNotify
  /\ provUser' = id
  /\ issued' = issued \cup {id}
  /\ authQ' = Append(authQ, id)
  /\ UNCHANGED <<firebaseConfig, retained, run2, losses, calls>>

\* a sign-in that sets App's user from the provider's answer
SignInAcceptedSetsUser ==
  \E i \in 1..Len(appReqs) :
    /\ appReqs[i].st = "pending"
    /\ \E id \in idsOf(appReqs[i].kind) : providerSignsIn(id) /\ user' = id
    /\ appReqs' = [appReqs EXCEPT ![i].st = "ok"]
    /\ UNCHANGED <<bpc, auth, isLoadingAuth, authError, showLoginPrompt,
                   currentPage, ongoing, tracker, orphanAuto, ops, docs, ledger>>

SignInAccepted ==
  \E i \in 1..Len(appReqs) :
    /\ appReqs[i].st = "pending"
    /\ \E id \in idsOf(appReqs[i].kind) : providerSignsIn(id)
    /\ appReqs' = [appReqs EXCEPT ![i].st = "ok"]
    /\ UNCHANGED <<bpc, auth, user, isLoadingAuth, authError, showLoginPrompt,
                   currentPage, ongoing, tracker, orphanAuto, ops, docs, ledger>>

SignInRejected ==
  \E i \in 1..Len(appReqs) :
    /\ appReqs[i].st = "pending"
    /\ appReqs' = [appReqs EXCEPT ![i].st = "fail"]
    /\ UNCHANGED <<bpc, auth, user, isLoadingAuth, authError, showLoginPrompt,
                   currentPage, ongoing, tracker, orphanAuto, ops, docs, ledger>>
    /\ UNCHANGED envVars

dropReq(i) == SubSeq(appReqs, 1, i - 1) \o SubSeq(appReqs, i + 1, Len(appReqs))

\* a continuation whose catch block returns before the loading flag is reset
SignInContinuesLoading ==
  \E i \in 1..Len(appReqs) :
    /\ appReqs[i].st # "pending"
    /\ appReqs' = dropReq(i)
    /\ IF appReqs[i].st = "ok"
       THEN /\ showLoginPrompt' = FALSE
            /\ currentPage' = "tracker"
            /\ isLoadingAuth' = FALSE
            /\ UNCHANGED authError
       ELSE /\ authError' = appReqs[i].kind
            /\ UNCHANGED <<showLoginPrompt, currentPage, isLoadingAuth>>
    /\ UNCHANGED <<bpc, auth, user, ongoing>>
    /\ UNCHANGED envVars
    /\ UNCHANGED storeVars
    /\ Commit(tracker)

\* the code after the await: try (152-153 / 177-178), catch, finally
SignInContinues ==
  \E i \in 1..Len(appReqs) :
    /\ appReqs[i].st # "pending"
    /\ appReqs' = dropReq(i)
    /\ IF appReqs[i].st = "ok"
       THEN /\ showLoginPrompt' = FALSE
            /\ currentPage' = "tracker"
            /\ UNCHANGED authError
       ELSE /\ authError' = appReqs[i].kind
            /\ UNCHANGED <<showLoginPrompt, currentPage>>
    /\ isLoadingAuth' = FALSE
    /\ UNCHANGED <<bpc, auth, user, ongoing>>
    /\ UNCHANGED envVars
    /\ UNCHANGED storeVars
    /\ Commit(tracker)

(***************************************************************************)
(* The auth provider.                                                      *)
(***************************************************************************)
\* the provider drops the identity on its own (revoked or expired session)
IdentityLost ==
  /\ provUser # NoUser
  /\ losses < MaxLoss
  /\ Len(authQ) < MaxNotify
  /\ provUser' = NoUser
  /\ authQ' = Append(authQ, NoUser)
  /\ losses' = losses + 1
  /\ UNCHANGED <<firebaseConfig, retained, run2, issued, calls>>
  /\ UNCHANGED appVars
  /\ UNCHANGED <<tracker, orphanAuto, ops, docs, ledger>>

\* one identity change reaches the listeners, in the order they were attached:
\* App's ongoing listener, then the tracker's; React then commits
AuthStateBroadcast ==
  /\ authQ # <<>>
  /\ authQ' = Tail(authQ)
  /\ UNCHANGED <<firebaseConfig, retained, run2, provUser, issued, losses, calls>>
  /\ IF listeners > 0
     THEN user' = Head(authQ) /\ showLoginPrompt' = promptAfter(Head(authQ))
     ELSE UNCHANGED <<user, showLoginPrompt>>
  /\ UNCHANGED <<bpc, auth, isLoadingAuth, authError, currentPage, ongoing, appReqs>>
  /\ UNCHANGED storeVars
  /\ Commit(IF tracker.mounted THEN trackerAuthCallback(tracker, Head(authQ))
            ELSE tracker)

\* the automatic sign-in of the tracker's listener (lines 87-99) is answered
AutoSignInAccepted ==
  /\ tracker.mounted /\ tracker.signingIn > 0
  /\ \E id \in AnonIds : providerSignsIn(id)
  /\ tracker' = [tracker EXCEPT !.signingIn = @ - 1, !.isLoading = FALSE]
  /\ UNCHANGED appVars
  /\ UNCHANGED <<orphanAuto, ops, docs, ledger>>

AutoSignInRejected ==
  /\ tracker.mounted /\ tracker.signingIn > 0
  /\ tracker' = [showMessage(tracker, "Error signing in", "error")
                   EXCEPT !.signingIn = @ - 1, !.isLoading = FALSE]
  /\ UNCHANGED appVars
  /\ UNCHANGED envVars
  /\ UNCHANGED <<orphanAuto, ops, docs, ledger>>

\* the same for an instance that has been unmounted since: only the
\* provider's state changes
OrphanSignInAccepted ==
  /\ orphanAuto > 0
  /\ \E id \in AnonIds : providerSignsIn(id)
  /\ orphanAuto' = orphanAuto - 1
  /\ UNCHANGED appVars
  /\ UNCHANGED <<tracker, ops, docs, ledger>>

OrphanSignInRejected ==
  /\ orphanAuto > 0
  /\ orphanAuto' = orphanAuto - 1
  /\ UNCHANGED appVars
  /\ UNCHANGED envVars
  /\ UNCHANGED <<tracker, ops, docs, ledger>>

(***************************************************************************)
(* StockTrackerAndAlerts: the watchlist.                                   *)
(***************************************************************************)
\* the component shows its form and lists once isLoading is false (221-227)
trackerUsable == userEvent /\ tracker.mounted /\ ~tracker.isLoading

msgEmpty == "Stock ticker cannot be empty."
msgMax == "You can track a maximum of 5 stocks."
msgDuplicate == "This stock is already being tracked."
msgNoUser == "Firebase not initialized or user not authenticated."
msgAdded == "added successfully!"
msgRemoved == "removed successfully."
msgAddError == "Error adding stock"
msgRemoveError == "Error removing stock"

\* an addStock / removeStock call that has reached its first await; base,
\* owner and ticker are the trackedStocks, userId and ticker of its closure
newOp(kind, t, ticker, stage) ==
  [kind |-> kind, owner |-> t.userId, base |-> t.trackedStocks,
   baseFrom |-> t.stocksFrom, ticker |-> ticker, stage |-> stage,
   orphan |-> FALSE]

\* an addStock without the limit of five
addStockUnlimited(t) ==
  LET normalizedNewStock == toUpperCase(trim(t.newStock)) IN
  IF trim(t.newStock) = <<>>
  THEN tracker' = showMessage(t, msgEmpty, "error") /\ UNCHANGED ops
  ELSE IF includes(t.trackedStocks, normalizedNewStock)
  THEN tracker' = showMessage(t, msgDuplicate, "error") /\ UNCHANGED ops
  ELSE IF t.userId = NoUser
  THEN tracker' = showMessage(t, msgNoUser, "error") /\ UNCHANGED ops
  ELSE /\ tracker' = t
       /\ ops' = ops (+) SetToBag({newOp("add", t, normalizedNewStock, "userDoc")})

\* an addStock that only checks for an empty input before it writes
addStockWritesFirst(t) ==
  LET normalizedNewStock == toUpperCase(trim(t.newStock)) IN
  IF trim(t.newStock) = <<>>
  THEN tracker' = showMessage(t, msgEmpty, "error") /\ UNCHANGED ops
  ELSE /\ tracker' = t
       /\ ops' = ops (+) SetToBag({newOp("add", t, normalizedNewStock, "userDoc")})

\* addStock, lines 155-176: the checks, then the write of the user document
addStock(t) ==
  LET normalizedNewStock == toUpperCase(trim(t.newStock)) IN
  IF trim(t.newStock) = <<>>
  THEN tracker' = showMessage(t, msgEmpty, "error") /\ UNCHANGED ops
  ELSE IF Len(t.trackedStocks) >= MaxStocks
  THEN tracker' = showMessage(t, msgMax, "error") /\ UNCHANGED ops
  ELSE IF includes(t.trackedStocks, normalizedNewStock)
  THEN tracker' = showMessage(t, msgDuplicate, "error") /\ UNCHANGED ops
  ELSE IF t.userId = NoUser
  THEN tracker' = showMessage(t, msgNoUser, "error") /\ UNCHANGED ops
  ELSE /\ tracker' = t
       /\ ops' = ops (+) SetToBag({newOp("add", t, normalizedNewStock, "userDoc")})

\* history: the adds of distinct tickers that were issued on one loaded
\* watchlist with room for both while the other was in flight, given the
\* calls in flight before and after an addStock call
overlapping(before, after) ==
  LET issuedNow == {n \in BagToSet(after) : CopiesIn(n, after) > CopiesIn(n, before)}
      together(n) == {q \in BagToSet(before) :
                        /\ q.kind = "add" /\ q.owner = n.owner /\ q.ticker # n.ticker
                        /\ q.base = n.base /\ n.baseFrom = n.owner
                        /\ Len(n.base) + 2 <= MaxStocks}
  IN  UNION {IF together(n) = {} THEN {}
             ELSE {<<n.owner, n.ticker>>} \cup {<<q.owner, q.ticker>> : q \in together(n)}
             : n \in issuedNow}

\* history: a call that reaches its write starts alone when no other call is
\* in flight and the list on screen is the last one the store delivered
startsAlone(t) == ops = EmptyBag /\ t.wQ = <<>> /\ t.stocksFrom = t.userId

\* the user types raw into the field and presses Enter (or the button)
AddStockFrom(inputs, limit) ==
  /\ trackerUsable
  /\ calls < limit
  /\ calls' = calls + 1
  /\ \E raw \in inputs : addStock([tracker EXCEPT !.newStock = raw])
  /\ ledger' = [ledger EXCEPT !.overlapped = @ \cup overlapping(ops, ops'),
                               !.orderly = @ /\ (ops' # ops => startsAlone(tracker))]
  /\ UNCHANGED appVars
  /\ UNCHANGED <<firebaseConfig, retained, run2, provUser, issued, authQ, losses>>
  /\ UNCHANGED <<orphanAuto, docs>>

\* a removeStock that refuses a ticker that is not listed
removeStockListed(t, stockToRemove) ==
  IF t.userId = NoUser \/ ~includes(t.trackedStocks, stockToRemove)
  THEN tracker' = showMessage(t, msgNoUser, "error") /\ UNCHANGED <<ops, ledger>>
  ELSE /\ tracker' = t
       /\ ledger' = [ledger EXCEPT !.removed = @ \cup {<<t.userId, stockToRemove>>},
                                    !.orderly = @ /\ startsAlone(t)]
       /\ ops' = ops (+) SetToBag({newOp("remove", t, stockToRemove, "stocksDoc")})

\* removeStock, lines 195-203
removeStock(t, stockToRemove) ==
  IF t.userId = NoUser
  THEN tracker' = showMessage(t, msgNoUser, "error") /\ UNCHANGED <<ops, ledger>>
  ELSE /\ tracker' = t
       /\ ledger' = [ledger EXCEPT !.removed = @ \cup {<<t.userId, stockToRemove>>},
                                    !.orderly = @ /\ startsAlone(t)]
       /\ ops' = ops (+) SetToBag({newOp("remove", t, stockToRemove, "stocksDoc")})

\* a Remove button exists for every ticker of the rendered list
RemoveStockWithin(limit) ==
  /\ trackerUsable
  /\ calls < limit
  /\ calls' = calls + 1
  /\ \E stock \in Range(tracker.trackedStocks) \cap RemoveChoices :
       removeStock(tracker, stock)
  /\ UNCHANGED appVars
  /\ UNCHANGED <<firebaseConfig, retained, run2, provUser, issued, authQ, losses>>
  /\ UNCHANGED <<orphanAuto, docs>>

\* an add that puts the new ticker first
updatedStocksFront(op) ==
  IF op.kind = "add" THEN <<op.ticker>> \o op.base
  ELSE filterOut(op.base, op.ticker)

\* the list the call writes: lines 180 and 200
updatedStocks(op) ==
  IF op.kind = "add" THEN Append(op.base, op.ticker)
  ELSE filterOut(op.base, op.ticker)

\* a catch block that drops the list on screen
opFailedClears(op) ==
  IF op.orphan THEN tracker
  ELSE showMessage([tracker EXCEPT !.trackedStocks = <<>>],
                   IF op.kind = "add" THEN msgAddError ELSE msgRemoveError,
                   "error")

\* the catch blocks of addStock and removeStock
opFailed(op) ==
  IF op.orphan THEN tracker
  ELSE showMessage(tracker,
                   IF op.kind = "add" THEN msgAddError ELSE msgRemoveError,
                   "error")

\* the code after the last await: lines 186-187 and 208
opSucceeded(t, op) ==
  IF op.orphan THEN t
  ELSE IF op.kind = "add"
       THEN showMessage([t EXCEPT !.newStock = <<>>], msgAdded, "success")
       ELSE showMessage(t, msgRemoved, "success")

\* the store tells the live watchlist listener of owner o about a new value;
\* a listener that has reported an error gets no further event
notifyWatchlist(t, o, value) ==
  IF t.wLive[o] > 0 /\ ~t.wFailed
  THEN [t EXCEPT !.wQ = Append(@, [owner |-> o, doc |-> value])]
  ELSE t

\* setDoc on the user document (line 176) resolves
UserDocWritten ==
  \E op \in BagToSet(ops) :
    /\ op.stage = "userDoc"
    /\ ops' = (ops (-) SetToBag({op})) (+) SetToBag({[op EXCEPT !.stage = "stocksDoc"]})
    /\ UNCHANGED appVars
    /\ UNCHANGED envVars
    /\ UNCHANGED <<tracker, orphanAuto, docs, ledger>>

\* an addStock that goes on to the watchlist write when the user document
\* could not be written
UserDocWriteIgnored ==
  \E op \in BagToSet(ops) :
    /\ op.stage = "userDoc"
    /\ ops' = (ops (-) SetToBag({op})) (+) SetToBag({[op EXCEPT !.stage = "stocksDoc"]})
    /\ ledger' = [ledger EXCEPT !.orderly = FALSE]
    /\ UNCHANGED appVars
    /\ UNCHANGED envVars
    /\ UNCHANGED <<tracker, orphanAuto, docs>>

UserDocWriteFails ==
  \E op \in BagToSet(ops) :
    /\ op.stage = "userDoc"
    /\ ops' = ops (-) SetToBag({op})
    /\ tracker' = opFailed(op)
    /\ ledger' = [ledger EXCEPT !.orderly = FALSE]
    /\ UNCHANGED appVars
    /\ UNCHANGED envVars
    /\ UNCHANGED <<orphanAuto, docs>>

\* setDoc on the watchlist document (lines 181-185 / 203-207) resolves: a
\* merge write of the fields userId, stocks and lastUpdated
StocksDocWritten ==
  \E op \in BagToSet(ops) :
    /\ op.stage = "stocksDoc"
    /\ tracker.wLive[op.owner] > 0 => Len(tracker.wQ) < MaxSnap
    /\ ops' = ops (-) SetToBag({op})
    /\ docs' = [docs EXCEPT ![op.owner] = updatedStocks(op)]
    /\ ledger' = (IF op.kind = "add"
                  THEN [ledger EXCEPT !.added = @ \cup {<<op.owner, op.ticker>>}]
                  ELSE ledger)
    /\ tracker' = opSucceeded(notifyWatchlist(tracker, op.owner, updatedStocks(op)), op)
    /\ UNCHANGED appVars
    /\ UNCHANGED envVars
    /\ UNCHANGED orphanAuto

StocksDocWriteFails ==
  \E op \in BagToSet(ops) :
    /\ op.stage = "stocksDoc"
    /\ ops' = ops (-) SetToBag({op})
    /\ tracker' = opFailed(op)
    /\ ledger' = [ledger EXCEPT !.orderly = FALSE]
    /\ UNCHANGED appVars
    /\ UNCHANGED envVars
    /\ UNCHANGED <<orphanAuto, docs>>

\* a callback that keeps the list on screen when the snapshot has no list
stocksKept(doc) ==
  IF doc = NoDoc THEN tracker.trackedStocks
  ELSE IF doc = NoStocks THEN tracker.trackedStocks
  ELSE doc

\* the watchlist onSnapshot callback, lines 115-123
stocksOfSnapshot(doc) ==
  IF doc = NoDoc THEN <<>>
  ELSE IF doc = NoStocks THEN <<>>
  ELSE doc

WatchlistSnapshot ==
  /\ tracker.mounted /\ tracker.wQ # <<>>
  /\ tracker' = [tracker EXCEPT !.wQ = Tail(@),
                   !.trackedStocks = stocksOfSnapshot(Head(tracker.wQ).doc),
                   !.stocksFrom = Head(tracker.wQ).owner]
  /\ UNCHANGED appVars
  /\ UNCHANGED envVars
  /\ UNCHANGED <<orphanAuto, ops, docs, ledger>>

\* the alerts onSnapshot callback, lines 137-144
AlertsSnapshot ==
  /\ tracker.mounted /\ tracker.aQ # <<>>
  /\ tracker' = [tracker EXCEPT !.aQ = Tail(@),
                   !.userAlerts = alertsOfSnapshot(Head(tracker.aQ).members),
                   !.alertsFrom = Head(tracker.aQ).owner]
  /\ UNCHANGED appVars
  /\ UNCHANGED envVars
  /\ UNCHANGED <<orphanAuto, ops, docs, ledger>>

msgLoadStocksError == "Error loading tracked stocks"
msgLoadAlertsError == "Error loading alerts"

\* an error callback that subscribes again
WatchlistListenerRetries ==
  /\ tracker.mounted /\ tracker.userId # NoUser
  /\ ~tracker.wFailed /\ tracker.wQ = <<>>
  /\ tracker' = showMessage(openSubscriptions(tracker, tracker.userId),
                            msgLoadStocksError, "error")
  /\ UNCHANGED appVars
  /\ UNCHANGED envVars
  /\ UNCHANGED <<orphanAuto, ops, docs, ledger>>

\* the watchlist listener's error callback, lines 124-127: the store reports
\* the failure after the snapshots it sent before, and ends the listen
WatchlistListenerFails ==
  /\ tracker.mounted /\ tracker.userId # NoUser
  /\ ~tracker.wFailed /\ tracker.wQ = <<>>
  /\ tracker' = showMessage([tracker EXCEPT !.wFailed = TRUE],
                            msgLoadStocksError, "error")
  /\ UNCHANGED appVars
  /\ UNCHANGED envVars
  /\ UNCHANGED <<orphanAuto, ops, docs, ledger>>

\* the alerts listener's error callback, lines 145-148
AlertsListenerFails ==
  /\ tracker.mounted /\ tracker.userId # NoUser
  /\ ~tracker.aFailed /\ tracker.aQ = <<>>
  /\ tracker' = showMessage([tracker EXCEPT !.aFailed = TRUE],
                            msgLoadAlertsError, "error")
  /\ UNCHANGED appVars
  /\ UNCHANGED envVars
  /\ UNCHANGED <<orphanAuto, ops, docs, ledger>>

\* another client of the account the tracker runs as writes the watchlist
\* document, or deletes it: the store tells the listener
StoreChanges ==
  /\ tracker.mounted /\ tracker.userId # NoUser
  /\ Len(tracker.wQ) < MaxSnap
  /\ \E value \in RemoteDocs :
       /\ docs' = [docs EXCEPT ![tracker.userId] = value]
       /\ tracker' = notifyWatchlist(tracker, tracker.userId, value)
  /\ UNCHANGED appVars
  /\ UNCHANGED envVars
  /\ UNCHANGED <<orphanAuto, ops, ledger>>

\* the timer armed by showMessage for a success message fires (lines 59-62)
MessageTimeout ==
  /\ tracker.mounted /\ tracker.timers > 0
  /\ tracker' = [tracker EXCEPT !.message = "", !.messageType = "",
                                !.messageTimeoutRef = (tracker.timers > 1),
                                !.timers = @ - 1]
  /\ UNCHANGED appVars
  /\ UNCHANGED envVars
  /\ UNCHANGED <<orphanAuto, ops, docs, ledger>>

\* the close button of an error message (line 249)
DismissMessage ==
  /\ trackerUsable /\ tracker.messageType = "error"
  /\ tracker' = showMessage(tracker, "", "")
  /\ UNCHANGED appVars
  /\ UNCHANGED envVars
  /\ UNCHANGED <<orphanAuto, ops, docs, ledger>>

(***************************************************************************)
(* The whole client: every identity path, one mutation at a time.          *)
(***************************************************************************)
AddStock == AddStockFrom(SessionInputs, MaxSessionCalls)

RemoveStock == RemoveStockWithin(MaxSessionCalls)

Next ==
  \/ BootStart
  \/ BootPersistenceSet
  \/ BootPersistenceFails
  \/ BootInitialUser
  \/ BootSignedOut
  \/ BootSignOutFails
  \/ SetPageAnalysis
  \/ handleTrackerClick
  \/ handleAuthAction
  \/ handleGuestLogin
  \/ SignInAccepted
  \/ SignInRejected
  \/ SignInContinues
  \/ IdentityLost
  \/ AuthStateBroadcast
  \/ AutoSignInAccepted
  \/ AutoSignInRejected
  \/ OrphanSignInAccepted
  \/ OrphanSignInRejected
  \/ AddStock
  \/ RemoveStock
  \/ UserDocWritten
  \/ UserDocWriteFails
  \/ StocksDocWritten
  \/ StocksDocWriteFails
  \/ WatchlistSnapshot
  \/ AlertsSnapshot
  \/ MessageTimeout
  \/ DismissMessage

Spec == Init /\ [][Next]_vars

(***************************************************************************)
(* The watchlist of one guest whose identity the provider keeps: every     *)
(* input, concurrent mutations, a document that may already hold tickers.  *)
(***************************************************************************)
InitWatch ==
  /\ firebaseConfig = "valid"
  /\ run2 = "off"
  /\ retained = NoUser
  /\ docs \in {d \in [Ids -> InitDocs] : \A o \in CredIds : d[o] = NoDoc}
  /\ Constructed

AddStockConcurrent == AddStockFrom(RawInputs, MaxCalls)

RemoveStockConcurrent == RemoveStockWithin(MaxCalls)

NextWatch ==
  \/ BootStart
  \/ BootPersistenceSet
  \/ BootInitialUser
  \/ handleTrackerClick
  \/ handleGuestLogin
  \/ SignInAccepted
  \/ SignInContinues
  \/ AuthStateBroadcast
  \/ AddStockConcurrent
  \/ RemoveStockConcurrent
  \/ UserDocWritten
  \/ UserDocWriteFails
  \/ StocksDocWritten
  \/ StocksDocWriteFails
  \/ WatchlistSnapshot
  \/ AlertsSnapshot
  \/ MessageTimeout
  \/ DismissMessage

SpecWatch == InitWatch /\ [][NextWatch]_vars

(***************************************************************************)
(* The watchlist functions applied to any argument: removeStock is called  *)
(* with a ticker of RemoveChoices whether or not the list holds it.        *)
(***************************************************************************)
RemoveStockAny ==
  /\ trackerUsable
  /\ calls < MaxCalls
  /\ calls' = calls + 1
  /\ \E stock \in RemoveChoices : removeStock(tracker, stock)
  /\ UNCHANGED appVars
  /\ UNCHANGED <<firebaseConfig, retained, run2, provUser, issued, authQ, losses>>
  /\ UNCHANGED <<orphanAuto, docs>>

NextCalls ==
  \/ BootStart
  \/ BootPersistenceSet
  \/ BootInitialUser
  \/ handleTrackerClick
  \/ handleGuestLogin
  \/ SignInAccepted
  \/ SignInContinues
  \/ AuthStateBroadcast
  \/ AddStockConcurrent
  \/ RemoveStockAny
  \/ UserDocWritten
  \/ StocksDocWritten
  \/ StocksDocWriteFails
  \/ WatchlistSnapshot
  \/ AlertsSnapshot
  \/ MessageTimeout
  \/ DismissMessage

SpecCalls == InitWatch /\ [][NextCalls]_vars

(***************************************************************************)
(* Session.phase of the specification, read off App's state.               *)
(***************************************************************************)
phase ==
  CASE bpc = "start" -> "Uninitialized"
    [] bpc \in {"fatal", "error"} -> "Fatal"
    [] bpc \in {"setPersistence", "initialUser", "signOut"} -> "Bootstrapping"
    [] bpc = "ready" /\ isLoadingAuth -> "Authenticating"
    [] bpc = "ready" /\ ~isLoadingAuth /\ user # NoUser -> "Authenticated"
    [] OTHER -> "Unauthenticated"

\* sign-in requests the provider has not answered yet
signInsInFlight ==
  Cardinality({i \in 1..Len(appReqs) : appReqs[i].st = "pending"})
    + tracker.signingIn + orphanAuto

isUpperCase(s) == \A i \in 1..Len(s) : s[i] \notin {"a", "b"}

noDuplicates(list) == \A i, j \in 1..Len(list) : list[i] = list[j] => i = j

\* every list of tickers the client holds or has sent
listsInPlay ==
  {stocksOfSnapshot(docs[o]) : o \in Ids}
    \cup {tracker.trackedStocks}
    \cup {stocksOfSnapshot(tracker.wQ[i].doc) : i \in 1..Len(tracker.wQ)}
    \cup {updatedStocks(op) : op \in BagToSet(ops)}

\* nothing in flight for the mounted tracker: every write has been answered
\* and every snapshot delivered
settled ==
  /\ tracker.mounted /\ tracker.userId # NoUser
  /\ ops = EmptyBag
  /\ tracker.wQ = <<>>
  /\ authQ = <<>>

(***************************************************************************)
(* C1.  When bootstrap completes with a valid configuration the session is *)
(* Unauthenticated with no identity, whatever the provider retained: until *)
(* the provider has issued an identity by a sign-in, the app is ready with *)
(* user null and the provider signed out, and the user shown is always one *)
(* the provider issued after the start, never the retained one.            *)
(***************************************************************************)
C1_BootstrapUnauthenticated ==
  /\ user # NoUser => user \in issued
  /\ (bpc = "ready" /\ issued = {}) =>
       /\ provUser = NoUser
       /\ user = NoUser
       /\ ~isLoadingAuth => phase = "Unauthenticated"

C1_Witness ==
  /\ bpc = "ready" /\ retained # NoUser /\ ~isLoadingAuth
  /\ user = NoUser /\ provUser = NoUser

(***************************************************************************)
(* C2.  Two adds of distinct tickers issued before either write commits    *)
(* are both kept: once every write is answered and every snapshot          *)
(* delivered, each ticker of such a pair whose add committed, and whose    *)
(* removal was never requested, is in the stored list and in the view.     *)
(***************************************************************************)
C2_ConcurrentAddsBothKept ==
  settled =>
    \A e \in (ledger.overlapped \cap ledger.added) \ ledger.removed :
      e[1] = tracker.userId =>
        /\ includes(tracker.trackedStocks, e[2])
        /\ includes(stocksOfSnapshot(docs[e[1]]), e[2])

(***************************************************************************)
(* C3.  Every list written to a watchlist document, queued in a snapshot   *)
(* or shown in the view has at most 5 tickers.                             *)
(***************************************************************************)
C3_AtMostFive == \A l \in listsInPlay : Len(l) <= 5

C3_Witness ==
  /\ Len(tracker.trackedStocks) = 5
  /\ tracker.message = msgMax
  /\ \E o \in Ids : docs[o] # NoDoc /\ Len(docs[o]) = 5

(***************************************************************************)
(* C4.  Every ticker of a stored watchlist is uppercase and occurs once.   *)
(***************************************************************************)
C4_UppercaseOnce ==
  \A o \in Ids :
    /\ noDuplicates(stocksOfSnapshot(docs[o]))
    /\ \A x \in Range(stocksOfSnapshot(docs[o])) : isUpperCase(x)

C4_Witness ==
  /\ tracker.message = msgDuplicate
  /\ tracker.newStock = <<Space, "A", Space>>
  /\ \E o \in Ids : docs[o] # NoDoc /\ includes(docs[o], <<"A">>) /\ includes(docs[o], <<"B">>)

C6_NoStaleIdentityData ==
  /\ (tracker.mounted /\ tracker.userId # NoUser) =>
       /\ tracker.trackedStocks # <<>> => tracker.stocksFrom = tracker.userId
       /\ tracker.userAlerts # <<>> => tracker.alertsFrom = tracker.userId
  /\ \A op \in BagToSet(ops) : op.base # <<>> => op.baseFrom = op.owner

(***************************************************************************)
(* C7.  Each watchlist document and each alerts collection has at most one *)
(* live subscription, at most one owner is subscribed at a time, only the  *)
(* owner the mounted tracker runs as is subscribed, and that owner is      *)
(* subscribed exactly once.                                                *)
(***************************************************************************)
C7_OneSubscriptionPerResource ==
  /\ \A o \in Ids :
       /\ tracker.wLive[o] \in {0, 1} /\ tracker.aLive[o] \in {0, 1}
       /\ (tracker.wLive[o] = 1 \/ tracker.aLive[o] = 1)
            => tracker.mounted /\ tracker.userId = o
  /\ (tracker.mounted /\ tracker.userId # NoUser) =>
       tracker.wLive[tracker.userId] = 1 /\ tracker.aLive[tracker.userId] = 1

\* the tracker was rekeyed while mounted: the list on screen still comes from
\* the previous owner, the subscriptions are the new owner's
C7_Witness ==
  /\ tracker.mounted /\ tracker.userId # NoUser
  /\ tracker.stocksFrom \notin {NoUser, tracker.userId}
  /\ tracker.wLive[tracker.userId] = 1 /\ tracker.wLive[tracker.stocksFrom] = 0

(***************************************************************************)
(* C8.  The identity App holds is non-null exactly when the phase is       *)
(* Authenticated.                                                          *)
(***************************************************************************)
C8_IdentityIffAuthenticated == (user # NoUser) <=> (phase = "Authenticated")

(***************************************************************************)
(* C9.  While App is Authenticating no further sign-in request is issued:  *)
(* App never has two requests open, and no step that begins and ends in    *)
(* Authenticating raises the number of requests the provider has yet to    *)
(* answer.                                                                 *)
(***************************************************************************)
C9_NoSecondSignIn ==
  /\ [](Len(appReqs) <= 1)
  /\ [][(phase = "Authenticating" /\ phase' = "Authenticating")
          => signInsInFlight' <= signInsInFlight]_vars

C9_Witness ==
  /\ phase = "Authenticating"
  /\ Len(appReqs) = 1 /\ appReqs[1].st = "pending"
  /\ currentPage = "tracker" /\ showLoginPrompt /\ user = NoUser /\ authQ = <<>>

(***************************************************************************)
(* C10.  After a failed sign-in App is Unauthenticated, the error is set,  *)
(* and the screen still offers a way to sign in.                           *)
(***************************************************************************)
C10_FailedSignInRecoverable ==
  (bpc = "ready" /\ authError \in {"email", "guest"} /\ ~isLoadingAuth /\ userEvent)
    => /\ phase = "Unauthenticated"
       /\ mainRendered

(***************************************************************************)
(* C11.  After a bootstrap with a missing or empty configuration no auth   *)
(* connection is opened, the configuration error is set, and the error     *)
(* screen is what the user sees.                                           *)
(***************************************************************************)
C11_ConfigErrorShown ==
  bpc = "fatal" =>
    /\ phase = "Fatal"
    /\ ~auth /\ ~ongoing
    /\ authError = "config"
    /\ errorScreenRendered

(***************************************************************************)
(* C12.  Only the user starts a sign-in: every step that raises the number *)
(* of sign-in requests awaiting the provider is a press of one of the two  *)
(* sign-in buttons.                                                        *)
(***************************************************************************)
C12_NoAutomaticSignIn ==
  [][signInsInFlight' > signInsInFlight
       => (handleAuthAction \/ handleGuestLogin)]_vars

(***************************************************************************)
(* C13.  A watchlist or alerts listener is live only while App is          *)
(* Authenticated: with no identity nothing is subscribed, so the listeners *)
(* of the previous identity are gone once the identity is.                 *)
(***************************************************************************)
C13_SubscribedOnlyAuthenticated ==
  \A o \in Ids :
    (tracker.wLive[o] > 0 \/ tracker.aLive[o] > 0)
      => phase = "Authenticated" /\ user # NoUser

\* the identity was lost after a watchlist had been subscribed and written
C13_Witness ==
  /\ user = NoUser /\ losses > 0 /\ authQ = <<>>
  /\ ledger.added # {}
  /\ \A o \in Ids : tracker.wLive[o] = 0 /\ tracker.aLive[o] = 0

(***************************************************************************)
(* C14.  An add that passes validation shows the new list at once: on the  *)
(* step of the call the view becomes the list the call is about to write.  *)
(***************************************************************************)
C14_OptimisticAdd ==
  [][\A op \in BagToSet(ops') :
       (AddStockConcurrent /\ CopiesIn(op, ops') > CopiesIn(op, ops))
         => tracker'.trackedStocks = updatedStocks(op)]_vars

(***************************************************************************)
(* C15.  At most one add or remove is in flight against the watchlist      *)
(* document of an owner.                                                   *)
(***************************************************************************)
C15_OneMutationInFlight ==
  \A o \in Ids :
    BagCardinality([op \in {q \in BagToSet(ops) : q.owner = o} |-> ops[op]]) <= 1

\* the watchlist as the user and the store see it is left as it was
watchlistUnchanged ==
  /\ tracker'.trackedStocks = tracker.trackedStocks
  /\ tracker'.wQ = tracker.wQ
  /\ docs' = docs

(***************************************************************************)
(* C16.  An add of a ticker that is not in the list, made while the list   *)
(* has 5 entries, starts no write, leaves view and document as they were   *)
(* and shows the maximum-of-5 error.                                       *)
(***************************************************************************)
C16_SixthRejected ==
  [][( /\ AddStockConcurrent
       /\ Len(tracker.trackedStocks) = 5
       /\ trim(tracker'.newStock) # <<>>
       /\ ~includes(tracker.trackedStocks, toUpperCase(trim(tracker'.newStock))) )
     => /\ ops' = ops
        /\ watchlistUnchanged
        /\ tracker'.message = msgMax
        /\ tracker'.messageType = "error"]_vars

C16_Witness ==
  /\ tracker.message = msgMax /\ tracker.messageType = "error"
  /\ tracker.newStock = <<"b", Space>>
  /\ tracker.trackedStocks = Append(StoredList, <<"A">>)
  /\ docs[tracker.userId] = tracker.trackedStocks
  /\ ops = EmptyBag

(***************************************************************************)
(* C17.  An add whose input is empty after trimming, whose ticker is       *)
(* already listed or whose list has 5 entries starts no write at all and   *)
(* leaves view and document as they were; it only shows an error.          *)
(***************************************************************************)
C17_RejectedAddWritesNothing ==
  [][( /\ AddStockConcurrent
       /\ \/ trim(tracker'.newStock) = <<>>
          \/ includes(tracker.trackedStocks, toUpperCase(trim(tracker'.newStock)))
          \/ Len(tracker.trackedStocks) >= 5 )
     => /\ ops' = ops
        /\ watchlistUnchanged
        /\ tracker'.messageType = "error"
        /\ tracker'.message \in {msgEmpty, msgDuplicate, msgMax}]_vars

C17_Witness ==
  /\ tracker.message = msgEmpty /\ tracker.messageType = "error"
  /\ tracker.newStock = <<Space>>
  /\ tracker.trackedStocks = StoredList
  /\ docs[tracker.userId] = StoredList
  /\ ops = EmptyBag /\ calls = 1

\* the call of the mounted tracker that ends on this step with its success
\* message: its write of the watchlist document has committed
commits(op) ==
  /\ op.stage = "stocksDoc" /\ ~op.orphan
  /\ CopiesIn(op, ops') < CopiesIn(op, ops)
  /\ tracker'.messageType = "success"
  /\ tracker'.message = (IF op.kind = "add" THEN msgAdded ELSE msgRemoved)

\* list with every occurrence of x left out, the others in their order
without(list, x) ==
  LET other(e) == e # x IN SelectSeq(list, other)

\* the watchlist of the mounted tracker once nothing is outstanding, where
\* every call so far ran alone and was written
orderlyList(l) ==
  /\ settled /\ ledger.orderly
  /\ tracker.stocksFrom = tracker.userId
  /\ tracker.trackedStocks = l
  /\ stocksOfSnapshot(docs[tracker.userId]) = l

(***************************************************************************)
(* C19.  Add appends at the end and remove deletes only the named ticker,  *)
(* keeping the order of the others: the list a committed add writes is the *)
(* list of its call followed by the ticker, the list a committed remove    *)
(* writes is the list of its call without the ticker; and after add(A),    *)
(* add(B), remove(A), each complete before the next, the watchlist that    *)
(* started empty is [B] (one that started with the stored list is that     *)
(* list followed by B).                                                    *)
(***************************************************************************)
C19_AppendAndDelete ==
  /\ [][\A op \in BagToSet(ops) :
          commits(op) =>
            LET new == docs'[op.owner] IN
            IF op.kind = "add"
            THEN /\ Len(new) = Len(op.base) + 1
                 /\ new[Len(new)] = op.ticker
                 /\ SubSeq(new, 1, Len(op.base)) = op.base
            ELSE new = without(op.base, op.ticker)]_vars
  /\ []( ( /\ settled /\ ledger.orderly
           /\ ledger.added = {<<tracker.userId, <<"A">>>>, <<tracker.userId, <<"B">>>>}
           /\ ledger.removed = {<<tracker.userId, <<"A">>>>}
           /\ ~includes(tracker.trackedStocks, <<"A">>) )
         => \/ orderlyList(<< <<"B">> >>)
            \/ orderlyList(Append(StoredList, <<"B">>)) )

C19_Witness ==
  /\ orderlyList(<< <<"B">> >>)
  /\ ledger.added = {<<tracker.userId, <<"A">>>>, <<tracker.userId, <<"B">>>>}
  /\ ledger.removed = {<<tracker.userId, <<"A">>>>}
  /\ tracker.message = msgRemoved

\* the letters of a raw input, spaces left out, each in its capital form
capital(c) ==
  CASE c \in {"a", "A"} -> "A"
    [] c \in {"b", "B"} -> "B"
    [] OTHER -> c

lettersOf(raw) ==
  LET letter(c) == c # Space
      kept == SelectSeq(raw, letter)
  IN  [i \in 1..Len(kept) |-> capital(kept[i])]

(***************************************************************************)
(* C20.  addStock trims and uppercases its input before the duplicate      *)
(* check and before storing: the ticker of every call that reaches its     *)
(* write is the capital letters of the input; an input whose letters are   *)
(* listed already, in a list with room, is refused as a duplicate whatever *)
(* its case and spaces; and after the single add of "a" or " A " the       *)
(* watchlist that started empty is [A].                                    *)
(***************************************************************************)
C20_NormalizedBeforeCheck ==
  /\ [][AddStockConcurrent =>
          /\ \A op \in BagToSet(ops') :
               CopiesIn(op, ops') > CopiesIn(op, ops)
                 => op.ticker = lettersOf(tracker'.newStock)
          /\ ( /\ Len(tracker.trackedStocks) < 5
               /\ lettersOf(tracker'.newStock) # <<>>
               /\ includes(tracker.trackedStocks, lettersOf(tracker'.newStock)) )
             => /\ ops' = ops
                /\ tracker'.message = msgDuplicate]_vars
  /\ []( ( /\ settled /\ ledger.orderly
           /\ ledger.added = {<<tracker.userId, <<"A">>>>}
           /\ ledger.removed = {}
           /\ tracker.stocksFrom = tracker.userId )
         => \/ orderlyList(<< <<"A">> >>)
            \/ orderlyList(Append(StoredList, <<"A">>)) )

C20_Witness ==
  /\ orderlyList(<< <<"A">> >>)
  /\ ledger.added = {<<tracker.userId, <<"A">>>>}
  /\ tracker.message = msgDuplicate
  /\ tracker.newStock = <<"a">>

(***************************************************************************)
(* C18.  removeStock(X) with X not in the list of its call goes through    *)
(* without an error: the list it is about to write is the list of its      *)
(* call, and when its write commits the document holds that same list, in  *)
(* the same order, and the message is the success message of a removal.    *)
(***************************************************************************)
C18_RemoveAbsentKeepsList ==
  /\ [][(RemoveStockAny /\ tracker.userId # NoUser) =>
          /\ tracker' = tracker
          /\ ops' # ops
          /\ \A op \in BagToSet(ops') :
               ( /\ CopiesIn(op, ops') > CopiesIn(op, ops)
                 /\ ~includes(tracker.trackedStocks, op.ticker) )
               => /\ op.kind = "remove"
                  /\ updatedStocks(op) = tracker.trackedStocks]_vars
  /\ [][\A op \in BagToSet(ops) :
          ( /\ commits(op) /\ op.kind = "remove"
            /\ ~includes(op.base, op.ticker) )
          => /\ docs'[op.owner] = op.base
             /\ tracker'.trackedStocks = tracker.trackedStocks
             /\ tracker'.message = msgRemoved
             /\ tracker'.messageType = "success"]_vars

\* A, never added, was removed from the stored list, which is still there
C18_Witness ==
  /\ orderlyList(StoredList)
  /\ ledger.removed = {<<tracker.userId, <<"A">>>>}
  /\ ledger.added = {}
  /\ tracker.message = msgRemoved /\ tracker.messageType = "success"

(***************************************************************************)
(* Signing in and out: every identity path of the app shell, with the      *)
(* scheduling the runtime guarantees.  A settled promise's continuation    *)
(* runs, and a queued listener callback is called: both are jobs of the    *)
(* event loop, which never stops.  Nothing is assumed of the provider's    *)
(* answers or of the user.                                                 *)
(***************************************************************************)
NextSignIn ==
  \/ BootStart
  \/ BootPersistenceSet
  \/ BootPersistenceFails
  \/ BootInitialUser
  \/ BootSignedOut
  \/ BootSignOutFails
  \/ SetPageAnalysis
  \/ handleTrackerClick
  \/ handleAuthAction
  \/ handleGuestLogin
  \/ SignInAccepted
  \/ SignInRejected
  \/ SignInContinues
  \/ IdentityLost
  \/ AuthStateBroadcast
  \/ AutoSignInAccepted
  \/ AutoSignInRejected
  \/ OrphanSignInAccepted
  \/ OrphanSignInRejected
  \/ WatchlistSnapshot
  \/ AlertsSnapshot

SpecSignIn ==
  Init /\ [][NextSignIn]_vars
    /\ WF_vars(SignInContinues) /\ WF_vars(AuthStateBroadcast)

\* the guest sign-in of handleGuestLogin, by the provider's answer to it
guestSignIn(st) == \E i \in 1..Len(appReqs) : appReqs[i] = [kind |-> "guest", st |-> st]

\* no sign-in other than App's own is in flight
onlyAppSignsIn == tracker.signingIn = 0 /\ orphanAuto = 0

InitListen ==
  /\ firebaseConfig = "valid"
  /\ run2 = "off"
  /\ retained = NoUser
  /\ docs \in {d \in [Ids -> RemoteDocs] : \A o \in AnonIds : d[o] = NoDoc}
  /\ Constructed

NextListen ==
  \/ BootStart
  \/ BootPersistenceSet
  \/ BootInitialUser
  \/ handleTrackerClick
  \/ handleAuthAction
  \/ SignInAccepted
  \/ SignInContinues
  \/ AuthStateBroadcast
  \/ AddStock
  \/ RemoveStock
  \/ UserDocWritten
  \/ UserDocWriteFails
  \/ StocksDocWritten
  \/ StocksDocWriteFails
  \/ StoreChanges
  \/ WatchlistListenerFails
  \/ AlertsListenerFails
  \/ WatchlistSnapshot
  \/ AlertsSnapshot
  \/ MessageTimeout
  \/ DismissMessage

SpecListen == InitListen /\ [][NextListen]_vars

\* the list a watchlist document holds: none when the document does not
\* exist or has no list
tickersIn(doc) == IF doc \in Seq(Seq({"A", "B", "W", "X", "Y", "Z"})) THEN doc ELSE <<>>

(***************************************************************************)
(* C22.  The step that delivers a watchlist snapshot takes the oldest      *)
(* queued snapshot and makes the view exactly its ticker list, the empty   *)
(* list when the document does not exist or has no stocks field, whatever  *)
(* the view was and whatever the client wrote itself.  With the listen     *)
(* alive and every snapshot delivered, the view is the stored list.        *)
(***************************************************************************)
C22_SnapshotReplacesView ==
  /\ [][WatchlistSnapshot =>
          /\ tracker'.trackedStocks = tickersIn(Head(tracker.wQ).doc)
          /\ tracker'.wQ = Tail(tracker.wQ)]_vars
  /\ [](( /\ tracker.mounted /\ tracker.userId # NoUser
          /\ tracker.stocksFrom = tracker.userId
          /\ tracker.wQ = <<>> /\ ~tracker.wFailed )
        => tracker.trackedStocks = tickersIn(docs[tracker.userId]))

\* the client's own add was written, and the view is then the list another
\* client wrote, which does not hold the added ticker
C22_Witness ==
  /\ ledger.added = {<<tracker.userId, <<"A">>>>}
  /\ tracker.mounted /\ tracker.wQ = <<>> /\ ~tracker.wFailed /\ ops = EmptyBag
  /\ tracker.trackedStocks = StoredList
  /\ tracker.stocksFrom = tracker.userId

(***************************************************************************)
(* C23.  After an alerts snapshot the visible list has one entry for each  *)
(* member document of the snapshot and no other, each entry carries its    *)
(* document's identifier, and the entries are ordered newest first.        *)
(***************************************************************************)
C23_AlertsOfSnapshot ==
  tracker.alertsFrom # NoUser =>
    LET members == AlertDocs(tracker.alertsFrom)
        shown == tracker.userAlerts
    IN  /\ Len(shown) = Len(members)
        /\ \A i \in 1..Len(members) :
             \E j \in 1..Len(shown) :
               /\ shown[j].id = members[i].docId
               /\ shown[j].alertTimestamp = members[i].alertTimestamp
        /\ \A i, j \in 1..Len(shown) :
             i < j => shown[i].alertTimestamp >= shown[j].alertTimestamp

(***************************************************************************)
(* C24.  At most one auto-clear timer is pending, and only while a success *)
(* message is the current message.  A call of the notifier makes its       *)
(* message the current one.  An error message is never cleared by a timer: *)
(* it stays until it is dismissed or replaced by a later call.             *)
(***************************************************************************)
C24_OneTimerForSuccess ==
  /\ [](/\ tracker.timers \in {0, 1}
        /\ tracker.timers = 1 => tracker.messageType = "success"
        /\ tracker.messageTimeoutRef <=> tracker.timers = 1)
  /\ [][tracker.messageType = "error" => ~MessageTimeout]_vars
  /\ [][( /\ tracker.messageType = "error" /\ tracker'.mounted
          /\ tracker'.message # tracker.message )
        => \/ DismissMessage
           \/ tracker'.message \in {msgEmpty, msgMax, msgDuplicate, msgNoUser,
                                    msgAdded, msgRemoved, msgAddError,
                                    msgRemoveError}]_vars

\* the duplicate error is on screen after the success message of the add,
\* and no timer is pending
C24_Witness ==
  /\ tracker.messageType = "error" /\ tracker.message = msgDuplicate
  /\ ledger.added # {}
  /\ tracker.timers = 0 /\ ops = EmptyBag

\* what the tracker shows and holds apart from the message
viewsAndSubscriptions(t) ==
  <<t.userId, t.trackedStocks, t.userAlerts, t.wLive, t.aLive, t.wQ, t.aQ>>

(***************************************************************************)
(* C25.  The step on which a listener reports a failure makes the matching *)
(* error the current message and changes neither view, neither queue nor   *)
(* the subscriptions: the owner stays subscribed once to each resource.    *)
(* Afterwards, while the tracker runs as the same user, no subscription is *)
(* opened or cancelled and the failed listen is not replaced.              *)
(***************************************************************************)
C25_ListenerFailureSurfaced ==
  /\ [][WatchlistListenerFails =>
          /\ tracker'.message = msgLoadStocksError
          /\ tracker'.messageType = "error"
          /\ viewsAndSubscriptions(tracker') = viewsAndSubscriptions(tracker)
          /\ tracker.wLive[tracker.userId] = 1]_vars
  /\ [][AlertsListenerFails =>
          /\ tracker'.message = msgLoadAlertsError
          /\ tracker'.messageType = "error"
          /\ viewsAndSubscriptions(tracker') = viewsAndSubscriptions(tracker)
          /\ tracker.aLive[tracker.userId] = 1]_vars
  /\ [][( /\ tracker.mounted /\ tracker'.mounted
          /\ tracker.userId # NoUser /\ tracker'.userId = tracker.userId )
        => /\ tracker'.wLive = tracker.wLive /\ tracker'.aLive = tracker.aLive
           /\ tracker.wFailed => tracker'.wFailed /\ tracker'.wQ = <<>>
           /\ tracker.aFailed => tracker'.aFailed /\ tracker'.aQ = <<>>]_vars

\* the watchlist listen has failed: the view still shows the four tickers
\* while the document has since been deleted
C25_Witness ==
  /\ tracker.mounted /\ tracker.wFailed
  /\ tracker.message = msgLoadStocksError /\ tracker.messageType = "error"
  /\ tracker.trackedStocks = StoredList
  /\ tickersIn(docs[tracker.userId]) = <<>>
  /\ tracker.wLive[tracker.userId] = 1

(***************************************************************************)
(* C26.  Once the app is ready, a step changes user only by delivering to  *)
(* the ongoing listener the oldest identity change not yet broadcast, and  *)
(* user becomes that identity.  No step of a sign-in operation (its call,  *)
(* the provider's answer, its continuation) changes user.  When no change  *)
(* is left to broadcast, user is the identity the provider holds.          *)
(***************************************************************************)
C26_ListenerSetsIdentity ==
  /\ [][(bpc = "ready" /\ user' # user) =>
          /\ ongoing /\ authQ # <<>>
          /\ authQ' = Tail(authQ)
          /\ user' = Head(authQ)]_vars
  /\ [][( \/ handleGuestLogin \/ handleAuthAction
          \/ SignInAccepted \/ SignInRejected \/ SignInContinues )
        => user' = user]_vars
  /\ []((bpc = "ready" /\ authQ = <<>>) => user = provUser)

\* both kinds of sign-in have run and the provider's identity has reached App
C26_Witness ==
  /\ bpc = "ready" /\ authQ = <<>> /\ appReqs = <<>>
  /\ user \in CredIds /\ provUser = user
  /\ issued = Ids /\ losses > 0

(***************************************************************************)
(* The development build: the bootstrap effect runs twice.                 *)
(***************************************************************************)
InitStrict ==
  /\ firebaseConfig \in Configs
  /\ run2 = "start"
  /\ retained \in Ids \cup {NoUser}
  /\ docs \in SessionDocs
  /\ Constructed

NextStrict ==
  \/ BootStart
  \/ BootPersistenceSet
  \/ BootPersistenceFails
  \/ BootInitialUser
  \/ BootSignedOut
  \/ BootSignOutFails
  \/ Boot2Start
  \/ Boot2PersistenceSet
  \/ Boot2PersistenceFails
  \/ Boot2InitialUser
  \/ Boot2SignedOut
  \/ Boot2SignOutFails
  \/ SetPageAnalysis
  \/ handleTrackerClick
  \/ handleGuestLogin
  \/ SignInAccepted
  \/ SignInRejected
  \/ SignInContinues
  \/ AuthStateBroadcast
  \/ AutoSignInAccepted
  \/ AutoSignInRejected
  \/ OrphanSignInAccepted
  \/ OrphanSignInRejected
  \/ WatchlistSnapshot
  \/ AlertsSnapshot

SpecStrict == InitStrict /\ [][NextStrict]_vars

(***************************************************************************)
(* C28.  At most one ongoing identity-change listener of the app shell is  *)
(* attached to the auth provider at any moment, also when the bootstrap    *)
(* effect runs twice.                                                      *)
(***************************************************************************)
C28_OneOngoingListener == listeners <= 1

\* nothing is pending: no identity change to broadcast, no sign-in in flight,
\* and the main screen is what App renders
atRest ==
  /\ bpc = "ready" /\ ~isLoadingAuth /\ authError = "none"
  /\ authQ = <<>> /\ appReqs = <<>> /\ signInsInFlight = 0

(***************************************************************************)
(* C29.  The step on which the ongoing listener is told that there is no   *)
(* identity while the tracker page is selected shows the login prompt, and *)
(* after an identity loss the app never rests on the tracker page without  *)
(* identity and without the login prompt.                                  *)
(***************************************************************************)
C29_PromptAfterIdentityLoss ==
  /\ [][( /\ authQ # <<>> /\ authQ' = Tail(authQ) /\ Head(authQ) = NoUser
          /\ ongoing /\ currentPage = "tracker" )
        => showLoginPrompt']_vars
  /\ []((atRest /\ losses > 0 /\ currentPage = "tracker" /\ user = NoUser)
          => showLoginPrompt)

\* the success message of a call
successOf(op) == IF op.kind = "add" THEN msgAdded ELSE msgRemoved

\* the error message of a call
errorOf(op) == IF op.kind = "add" THEN msgAddError ELSE msgRemoveError

(***************************************************************************)
(* C30.  A step that puts a success message on screen is the step on which *)
(* the watchlist write of a call of the mounted tracker succeeds: the      *)
(* document then holds the list the call wrote and the message is that     *)
(* call's.  The step on which a write of a call fails shows the call's     *)
(* error and no success, issues no further write for it, leaves the store  *)
(* as it was and keeps the text of the input field.                        *)
(***************************************************************************)
C30_SuccessOnlyAfterWrite ==
  /\ [][( /\ tracker'.messageType = "success"
          /\ \/ tracker.messageType # "success"
             \/ tracker'.message # tracker.message )
        => \E op \in BagToSet(ops) :
             /\ op.stage = "stocksDoc" /\ ~op.orphan
             /\ ops' = ops (-) SetToBag({op})
             /\ tickersIn(docs'[op.owner]) = updatedStocks(op)
             /\ tracker'.message = successOf(op)]_vars
  /\ [][\A op \in BagToSet(ops) :
          ( /\ ~op.orphan
            /\ CopiesIn(op, ops') < CopiesIn(op, ops)
            /\ UserDocWriteFails \/ StocksDocWriteFails )
          => /\ tracker'.messageType = "error"
             /\ tracker'.message = errorOf(op)
             /\ ops' = ops (-) SetToBag({op})
             /\ docs' = docs
             /\ tracker'.wQ = tracker.wQ
             /\ tracker'.newStock = tracker.newStock]_vars

\* A was added; the add of B then failed: its error is shown, the field
\* still holds what was typed and the document holds A alone
C30_Witness ==
  /\ tracker.messageType = "error" /\ tracker.message = msgAddError
  /\ tracker.newStock = <<"b", Space>>
  /\ ledger.added = {<<tracker.userId, <<"A">>>>}
  /\ tickersIn(docs[tracker.userId]) = << <<"A">> >>
  /\ ops = EmptyBag

====
